---------------------------- MODULE Spec2Model ----------------------------
(***************************************************************************)
(* Resume rewriter: suggestion matching (locateBullet), patch building     *)
(* (buildPatchFromRewrites), the replace-only patch interpreter            *)
(* (applyPatchLocal), the accept/reject store of InlineDiffPanel and the   *)
(* page that owns the document, the suggestions and the pending patch.     *)
(*                                                                         *)
(* JavaScript strings are sequences of one-character strings, so that      *)
(* trim, slice, includes, split and the string/number conversions of path  *)
(* segments are computed as the code computes them.                        *)
(***************************************************************************)
EXTENDS Naturals, Integers, Sequences, FiniteSets, TLC

VARIABLES
    resumeId,        \* page: resumeId ("" until an upload answered)
    s3key,           \* page: s3key
    jsonResume,      \* page: jsonResume (JSON value; JNull until extracted)
    jobId,           \* page: jobId
    rewrites,        \* page: rewrites (the suggestion list)
    busy,            \* page: busy
    pendingPatch,    \* page: pendingPatch (the panel's "pending" operations)
    dismissedPaths,  \* InlineDiffPanel: dismissedPaths (component state)
    request,         \* the handler awaiting a response, with what its closure captured
    docResume,       \* the resume_id the request that produced jsonResume was made for
    last,            \* what the latest step did, when it was a store operation or a save answer
    rendered,        \* InlineDiffPanel: the pendingPatch prop and dismissedPaths of its latest render
    built,           \* result of a call of buildPatchFromRewrites
    applied,         \* result of a call of applyPatchLocal
    again            \* result of applying the same patch to that result

vars == <<resumeId, s3key, jsonResume, jobId, rewrites, busy, pendingPatch,
          dismissedPaths, request, docResume, last, rendered, built, applied, again>>

-----------------------------------------------------------------------------
(* Bounds of the model                                                     *)

MaxWork == 2
MaxBullets == 3
MaxSugg == 2
MaxOps == 2

-----------------------------------------------------------------------------
(* JavaScript strings                                                      *)

Min(a, b) == IF a < b THEN a ELSE b

IsSpace(c) == c = " "

\* String.prototype.trim
RECURSIVE trimStart(_)
trimStart(s) ==
    IF s # <<>> /\ IsSpace(Head(s)) THEN trimStart(Tail(s)) ELSE s

RECURSIVE trimEnd(_)
trimEnd(s) ==
    IF s # <<>> /\ IsSpace(s[Len(s)]) THEN trimEnd(SubSeq(s, 1, Len(s) - 1)) ELSE s

trim(s) == trimEnd(trimStart(s))

\* String.prototype.slice(0, n), 0 <= n
slice0(s, n) == SubSeq(s, 1, Min(n, Len(s)))

\* String.prototype.includes
includes(s, frag) ==
    \E k \in 0..(Len(s) - Len(frag)) : SubSeq(s, k + 1, k + Len(frag)) = frag

Digits == <<"0", "1", "2", "3", "4", "5", "6", "7", "8", "9">>

IsDigit(c) == \E d \in 1..10 : Digits[d] = c

DigitValue(c) == (CHOOSE d \in 1..10 : Digits[d] = c) - 1

\* `${n}` for a non-negative integer n
RECURSIVE Dec(_)
Dec(n) ==
    IF n < 10 THEN <<Digits[n + 1]>>
    ELSE Dec(n \div 10) \o <<Digits[(n % 10) + 1]>>

RECURSIVE DecValue(_)
DecValue(s) ==
    IF s = <<>> THEN 0
    ELSE 10 * DecValue(SubSeq(s, 1, Len(s) - 1)) + DigitValue(s[Len(s)])

\* Number(seg) and isFinite, for the segments a path of the model can hold:
\* a run of decimal digits is that number (leading zeros dropped), any other
\* segment of the vocabulary is NaN.
NumberOf(seg) ==
    IF seg # <<>> /\ \A k \in 1..Len(seg) : IsDigit(seg[k])
    THEN [finite |-> TRUE, n |-> DecValue(seg)]
    ELSE [finite |-> FALSE, n |-> 0]

\* String.prototype.split("/")
RECURSIVE split(_)
split(s) ==
    IF \A k \in 1..Len(s) : s[k] # "/" THEN <<s>>
    ELSE LET k == CHOOSE j \in 1..Len(s) :
                      s[j] = "/" /\ \A h \in 1..(j - 1) : s[h] # "/"
         IN <<SubSeq(s, 1, k - 1)>> \o split(SubSeq(s, k + 1, Len(s)))

\* Array.prototype.filter(Boolean) on an array of strings
filterBoolean(parts) == SelectSeq(parts, LAMBDA p : p # <<>>)

WorkKey == <<"w", "o", "r", "k">>
HighlightsKey == <<"h", "i", "g", "h", "l", "i", "g", "h", "t", "s">>

UndefinedKey == <<"u", "n", "d", "e", "f", "i", "n", "e", "d">>

-----------------------------------------------------------------------------
(* JSON values: the document (resumeJson: any) and what traversal reads    *)

JNull == [t |-> "null", v |-> <<>>]
JUndefined == [t |-> "undefined", v |-> <<>>]
JStr(s) == [t |-> "string", v |-> s]
JArr(xs) == [t |-> "array", v |-> xs]
\* f: a function from property names to JSON values (<<>> for {})
JObj(f) == [t |-> "object", v |-> f]

\* a value that is truthy in a JavaScript condition
Truthy(x) == x.t \in {"array", "object"} \/ (x.t = "string" /\ x.v # <<>>)

\* isFinite(Number(seg)) ? Number(seg) : seg
KeyOf(seg) ==
    LET num == NumberOf(seg)
    IN IF num.finite THEN [num |-> TRUE, n |-> num.n, s |-> <<>>]
       ELSE [num |-> FALSE, n |-> 0, s |-> seg]

\* the property name a key stands for (a number key is its decimal string)
PropName(key) == IF key.num THEN Dec(key.n) ELSE key.s

\* cursor[key] on a value that is neither null nor undefined
Get(cursor, key) ==
    CASE cursor.t = "array" ->
           IF key.num /\ key.n < Len(cursor.v) THEN cursor.v[key.n + 1] ELSE JUndefined
      [] cursor.t = "object" ->
           IF PropName(key) \in DOMAIN cursor.v THEN cursor.v[PropName(key)] ELSE JUndefined
      [] cursor.t = "string" ->
           IF key.num /\ key.n < Len(cursor.v) THEN JStr(<<cursor.v[key.n + 1]>>) ELSE JUndefined
      [] OTHER -> JUndefined

\* key in cursor, for an array or an object
HasProperty(cursor, key) ==
    CASE cursor.t = "array" -> key.num /\ key.n < Len(cursor.v)
      [] cursor.t = "object" -> PropName(key) \in DOMAIN cursor.v
      [] OTHER -> FALSE

\* node[key] = val, for a property the node has
SetProp(node, key, val) ==
    IF node.t = "array" THEN [node EXCEPT !.v[key.n + 1] = val]
    ELSE [node EXCEPT !.v[PropName(key)] = val]

\* the assignment cursor[lastKey] = value seen from the root of the clone:
\* trail is the list of keys that led from the root to cursor
RECURSIVE SetAt(_, _, _, _)
SetAt(node, trail, key, val) ==
    IF trail = <<>> THEN SetProp(node, key, val)
    ELSE SetProp(node, Head(trail), SetAt(Get(node, Head(trail)), Tail(trail), key, val))

-----------------------------------------------------------------------------
(* applyPatchLocal                                                         *)

Op(path, value) == [op |-> "replace", path |-> path, value |-> value]

\* the loop "for (let i = 0; i < parts.length - 1; i++)": i counts from 1 here.
\* Reading a property of null raises a TypeError.
\* a traversal whose loop runs to the last segment (i < parts.length)
RECURSIVE walk_ToLast(_, _, _, _)
walk_ToLast(cursor, parts, i, trail) ==
    IF i > Len(parts) THEN [threw |-> FALSE, cursor |-> cursor, trail |-> trail]
    ELSE IF cursor.t \in {"null", "undefined"}
         THEN [threw |-> TRUE, cursor |-> cursor, trail |-> trail]
         ELSE LET key == KeyOf(parts[i])
                  next == Get(cursor, key)
              IN IF next = JUndefined
                 THEN [threw |-> FALSE, cursor |-> JUndefined, trail |-> trail]
                 ELSE walk_ToLast(next, parts, i + 1, Append(trail, key))

RECURSIVE walk(_, _, _, _)
walk(cursor, parts, i, trail) ==
    IF i > Len(parts) - 1 THEN [threw |-> FALSE, cursor |-> cursor, trail |-> trail]
    ELSE IF cursor.t \in {"null", "undefined"}
         THEN [threw |-> TRUE, cursor |-> cursor, trail |-> trail]
         ELSE LET key == KeyOf(parts[i])
                  next == Get(cursor, key)
              IN IF next = JUndefined
                 THEN [threw |-> FALSE, cursor |-> JUndefined, trail |-> trail]
                 ELSE walk(next, parts, i + 1, Append(trail, key))

\* one iteration of "for (const op of patch)": the clone after it, or threw.
\* "lastKey in cursor" raises a TypeError when cursor is a non-empty string.
applyOp(clone, op) ==
    IF op.op # "replace" THEN [threw |-> FALSE, clone |-> clone]
    ELSE LET parts == filterBoolean(split(op.path))
             w == walk(clone, parts, 1, <<>>)
             lastKey == IF parts = <<>>
                        THEN [num |-> FALSE, n |-> 0, s |-> UndefinedKey]
                        ELSE KeyOf(parts[Len(parts)])
         IN IF w.threw THEN [threw |-> TRUE, clone |-> clone]
            ELSE IF ~Truthy(w.cursor) THEN [threw |-> FALSE, clone |-> clone]
            ELSE IF w.cursor.t = "string" THEN [threw |-> TRUE, clone |-> clone]
            ELSE IF HasProperty(w.cursor, lastKey)
                 THEN [threw |-> FALSE,
                       clone |-> SetAt(clone, w.trail, lastKey, JStr(op.value))]
                 ELSE [threw |-> FALSE, clone |-> clone]

\* an applier that stops after the first operation
applyOps_FirstOnly(clone, patch, i) ==
    IF i > Len(patch) \/ i > 1 THEN [threw |-> FALSE, clone |-> clone]
    ELSE applyOp(clone, patch[i])

RECURSIVE applyOps(_, _, _)
applyOps(clone, patch, i) ==
    IF i > Len(patch) THEN [threw |-> FALSE, clone |-> clone]
    ELSE LET r == applyOp(clone, patch[i])
         IN IF r.threw THEN r ELSE applyOps(r.clone, patch, i + 1)

\* JSON.parse(JSON.stringify(x)): a fresh object graph with the same content
JSONClone_Alias(x) == [alias |-> TRUE, value |-> x]

JSONClone(x) == [alias |-> FALSE, value |-> x]

\* The call applyPatchLocal(resumeJson, patch):
\*   threw: an exception left the function; value: what it returned;
\*   alias: the returned value is the very object passed in;
\*   arg: the content of the object passed in, after the call.
applyPatchLocal(resumeJson, patch) ==
    LET c == JSONClone(resumeJson)
        r == applyOps(c.value, patch, 1)
    IN [threw |-> r.threw,
        alias |-> c.alias,
        value |-> IF r.threw THEN JUndefined ELSE r.clone,
        arg   |-> IF c.alias THEN r.clone ELSE resumeJson]

-----------------------------------------------------------------------------
(* locateBullet                                                            *)

\* The fuzzy pass looks for the first FragmentLen characters of "before"
FragmentLen == 20

\* a key that leaves the entry out: `${i}`
UsedKey_NoWork(w, i) == Dec(i)

\* `${w}:${i}`
UsedKey(w, i) == Dec(w) \o <<":">> \o Dec(i)

\* work?.[w]?.highlights || [] as the list the inner loop indexes:
\* an array gives its elements, a non-empty string its characters,
\* anything else (no entry, no field, null, "", an object) nothing
highlightsOf(entry) ==
    LET h == IF entry.t \in {"null", "undefined"} THEN JUndefined
             ELSE Get(entry, KeyOf(HighlightsKey))
    IN IF h.t = "array" THEN h.v
       ELSE IF h.t = "string" THEN [k \in 1..Len(h.v) |-> JStr(<<h.v[k]>>)]
       ELSE <<>>

\* highlights[i] ?? "" (the bullets of the model are strings or null)
bulletText(h) == IF h.t = "string" THEN h.v ELSE <<>>

\* the positions the two nested loops visit, in the order they visit them
RECURSIVE scanOrder(_, _)
scanOrder(work, w) ==
    IF w >= Len(work) THEN <<>>
    ELSE LET hs == highlightsOf(work[w + 1])
         IN [i \in 1..Len(hs) |-> [workIdx |-> w, idx |-> i - 1, text |-> bulletText(hs[i])]]
            \o scanOrder(work, w + 1)

\* a matcher that falls back on the first bullet
NotFound_FirstBullet == [found |-> TRUE, workIdx |-> 0, idx |-> 0]

NotFound == [found |-> FALSE, workIdx |-> 0, idx |-> 0]

\* one pass: the first position outside used whose text passes the test
RECURSIVE firstMatch(_, _, _, _, _)
firstMatch(order, k, used, exact, probe) ==
    IF k > Len(order) THEN NotFound
    ELSE LET b == order[k]
         IN IF UsedKey(b.workIdx, b.idx) \in used
            THEN firstMatch(order, k + 1, used, exact, probe)
            ELSE IF (exact /\ trim(b.text) = probe) \/ (~exact /\ includes(b.text, probe))
                 THEN [found |-> TRUE, workIdx |-> b.workIdx, idx |-> b.idx]
                 ELSE firstMatch(order, k + 1, used, exact, probe)

\* a locateBullet that forgets the used set in the exact pass
locateBullet_IgnoreUsed(before, work, used) ==
    LET order == scanOrder(work, 0)
        hit == firstMatch(order, 1, {}, TRUE, trim(before))
    IN IF hit.found THEN hit
       ELSE firstMatch(order, 1, used, FALSE, slice0(before, Min(FragmentLen, Len(before))))

\* a locateBullet with a single pass that accepts either kind of match
locateBullet_OnePass(before, work, used) ==
    LET order == scanOrder(work, 0)
        frag == slice0(before, Min(FragmentLen, Len(before)))
        free == SelectSeq(order, LAMBDA b : UsedKey(b.workIdx, b.idx) \notin used)
        hits == SelectSeq(free, LAMBDA b : trim(b.text) = trim(before) \/ includes(b.text, frag))
    IN IF hits = <<>> THEN NotFound
       ELSE [found |-> TRUE, workIdx |-> hits[1].workIdx, idx |-> hits[1].idx]

\* a locateBullet that tries containment before equality
locateBullet_FuzzyFirst(before, work, used) ==
    LET order == scanOrder(work, 0)
        hit == firstMatch(order, 1, used, FALSE, slice0(before, Min(FragmentLen, Len(before))))
    IN IF hit.found THEN hit
       ELSE firstMatch(order, 1, used, TRUE, trim(before))

\* a locateBullet whose second pass looks for the whole before text
locateBullet_WholeBefore(before, work, used) ==
    LET order == scanOrder(work, 0)
        hit == firstMatch(order, 1, used, TRUE, trim(before))
    IN IF hit.found THEN hit
       ELSE firstMatch(order, 1, used, FALSE, before)

\* a locateBullet that compares the before text as it came
locateBullet_NoTrim(before, work, used) ==
    LET order == scanOrder(work, 0)
        hit == firstMatch(order, 1, used, TRUE, before)
    IN IF hit.found THEN hit
       ELSE firstMatch(order, 1, used, FALSE, slice0(before, Min(FragmentLen, Len(before))))

locateBullet(before, work, used) ==
    LET order == scanOrder(work, 0)
        needle == trim(before)
        hit == firstMatch(order, 1, used, TRUE, needle)
    IN IF hit.found THEN hit
       ELSE firstMatch(order, 1, used, FALSE, slice0(before, Min(FragmentLen, Len(before))))

-----------------------------------------------------------------------------
(* buildPatchFromRewrites                                                  *)

\* a path that counts entries and bullets from one
bulletPath_OneBased(workIdx, idx) ==
    <<"/">> \o WorkKey \o <<"/">> \o Dec(workIdx + 1) \o <<"/">> \o HighlightsKey \o <<"/">> \o Dec(idx + 1)

\* a path with the two indices in each other's place
bulletPath_Swapped(workIdx, idx) ==
    <<"/">> \o WorkKey \o <<"/">> \o Dec(idx) \o <<"/">> \o HighlightsKey \o <<"/">> \o Dec(workIdx)

\* `/work/${workIdx}/highlights/${idx}`
bulletPath(workIdx, idx) ==
    <<"/">> \o WorkKey \o <<"/">> \o Dec(workIdx) \o <<"/">> \o HighlightsKey
    \o <<"/">> \o Dec(idx)

\* Array.isArray(resumeJson?.work) ? resumeJson.work : []
workOf(resumeJson) ==
    LET w == IF resumeJson.t \in {"null", "undefined"} THEN JUndefined
             ELSE Get(resumeJson, KeyOf(WorkKey))
    IN IF w.t = "array" THEN w.v ELSE <<>>

\* the loop "for (const r of rewrites)" from rewrite k on
\* a builder in which a later suggestion takes a bullet from an earlier one
RECURSIVE buildFrom_Displace(_, _, _, _, _, _)
buildFrom_Displace(rs, work, k, used, patch, mapping) ==
    IF k > Len(rs) THEN [patch |-> patch, mapping |-> mapping]
    ELSE LET r == rs[k]
             loc == locateBullet(r.before, work, {})
         IN IF loc.found
            THEN buildFrom_Displace(rs, work, k + 1, used,
                     Append(SelectSeq(patch, LAMBDA p : p.path # bulletPath(loc.workIdx, loc.idx)),
                            Op(bulletPath(loc.workIdx, loc.idx), r.after)),
                     Append(SelectSeq(mapping, LAMBDA m : m.workIdx # loc.workIdx \/ m.idx # loc.idx),
                            [workIdx |-> loc.workIdx, idx |-> loc.idx,
                             before |-> r.before, after |-> r.after]))
            ELSE buildFrom_Displace(rs, work, k + 1, used, patch, mapping)

\* a builder whose operations carry the before text
RECURSIVE buildFrom_PatchBefore(_, _, _, _, _, _)
buildFrom_PatchBefore(rs, work, k, used, patch, mapping) ==
    IF k > Len(rs) THEN [patch |-> patch, mapping |-> mapping]
    ELSE LET r == rs[k]
             loc == locateBullet(r.before, work, used)
         IN IF loc.found
            THEN buildFrom_PatchBefore(rs, work, k + 1,
                     used \cup {UsedKey(loc.workIdx, loc.idx)},
                     Append(patch, Op(bulletPath(loc.workIdx, loc.idx), r.before)),
                     Append(mapping, [workIdx |-> loc.workIdx, idx |-> loc.idx,
                                      before |-> r.before, after |-> r.after]))
            ELSE buildFrom_PatchBefore(rs, work, k + 1, used, patch, mapping)

RECURSIVE buildFrom(_, _, _, _, _, _)
buildFrom(rs, work, k, used, patch, mapping) ==
    IF k > Len(rs) THEN [patch |-> patch, mapping |-> mapping]
    ELSE LET r == rs[k]
             loc == locateBullet(r.before, work, used)
         IN IF loc.found
            THEN buildFrom(rs, work, k + 1,
                     used \cup {UsedKey(loc.workIdx, loc.idx)},
                     Append(patch, Op(bulletPath(loc.workIdx, loc.idx), r.after)),
                     Append(mapping, [workIdx |-> loc.workIdx, idx |-> loc.idx,
                                      before |-> r.before, after |-> r.after]))
            ELSE buildFrom(rs, work, k + 1, used, patch, mapping)

buildPatchFromRewrites(rs, resumeJson) ==
    buildFrom(rs, workOf(resumeJson), 1, {}, <<>>, <<>>)

-----------------------------------------------------------------------------
(* Documents and suggestions the model draws its inputs from               *)

TextA == <<"a">>
TextXA == <<"x", "a">>
TextSpA == <<" ", "a">>
TextY == <<"y">>
TextZ == <<"z">>

BulletTexts == {TextA, TextXA, TextSpA}

\* Rewrite values: { before, after }
Suggestions ==
    { [before |-> TextA, after |-> TextY],
      [before |-> TextXA, after |-> TextZ],
      [before |-> TextSpA, after |-> TextZ] }

RewriteLists == UNION {[1..n -> Suggestions] : n \in 0..MaxSugg}

\* { highlights: [...] }
Entry(bullets) ==
    JObj(HighlightsKey :> JArr([k \in 1..Len(bullets) |-> JStr(bullets[k])]))

\* { work: [...] }
Resume(entries) == JObj(WorkKey :> JArr(entries))

RECURSIVE SumSeq(_)
SumSeq(q) == IF q = <<>> THEN 0 ELSE Head(q) + SumSeq(Tail(q))

\* resumes of at most MaxWork entries holding at most MaxBullets bullets in all:
\* a list of bullets cut into entries of the sizes sz
BulletLists == UNION {[1..n -> BulletTexts] : n \in 0..MaxBullets}

CutInto(bs, sz) ==
    [e \in 1..Len(sz) |->
        Entry(SubSeq(bs, SumSeq(SubSeq(sz, 1, e - 1)) + 1, SumSeq(SubSeq(sz, 1, e))))]

Resumes ==
    { Resume(CutInto(bs, sz)) :
        <<bs, sz>> \in { p \in BulletLists \X UNION {[1..e -> 0..MaxBullets] : e \in 0..MaxWork} :
                           SumSeq(p[2]) = Len(p[1]) } }

\* documents that are not of the resume shape
OddResumes ==
    { JObj(<<>>),
      JObj(WorkKey :> JNull),
      Resume(<<JNull>>),
      Resume(<<JObj(<<>>)>>),
      Resume(<<JObj(HighlightsKey :> JStr(TextA))>>),
      Resume(<<JObj(HighlightsKey :> JStr(<<>>))>>),
      Resume(<<JObj(HighlightsKey :> JArr(<<JNull, JStr(TextA)>>))>>) }

NotCalled == [called |-> FALSE]

-----------------------------------------------------------------------------
(* The builder on its own: build(rewrites, jsonResume)                     *)

\* the latest step was neither a store operation nor the answer to a save
NoOperation == [op |-> "none"]

\* what a render of the panel hands to the callbacks it creates: the
\* pendingPatch prop and the dismissedPaths state as they are at that render
Rendering == [pendingPatch |-> pendingPatch, dismissedPaths |-> dismissedPaths]

\* callbacks that keep the values of the render before the latest update
render_Stale == rendered' = rendered

\* the state updates of a handler are followed by a render before the next
\* event is handled
render == rendered' = [pendingPatch |-> pendingPatch', dismissedPaths |-> dismissedPaths']

PageIdle ==
    /\ resumeId = "" /\ s3key = "" /\ jobId = "" /\ busy = FALSE
    /\ request = [kind |-> "none"]
    /\ docResume = ""
    /\ last = NoOperation
    /\ dismissedPaths = <<>>

InitBuild ==
    /\ PageIdle
    /\ jsonResume \in Resumes \cup OddResumes
    /\ rewrites \in RewriteLists
    /\ pendingPatch = <<>>
    /\ rendered = Rendering
    /\ built = NotCalled /\ applied = NotCalled /\ again = NotCalled

CallBuild ==
    /\ ~built.called
    /\ built' = [called |-> TRUE,
                 patch |-> buildPatchFromRewrites(rewrites, jsonResume).patch,
                 mapping |-> buildPatchFromRewrites(rewrites, jsonResume).mapping]
    /\ UNCHANGED <<resumeId, s3key, jsonResume, jobId, rewrites, busy, pendingPatch,
                   dismissedPaths, request, docResume, last, rendered, applied, again>>

NextBuild == CallBuild

SpecBuild == InitBuild /\ [][NextBuild]_vars

\* the bullets of the document under build, in scan order
Bullets == scanOrder(workOf(jsonResume), 0)

\* the place in scan order of the bullet a mapping entry names (0: none)
PlaceOf(m) ==
    IF \E p \in 1..Len(Bullets) : Bullets[p].workIdx = m.workIdx /\ Bullets[p].idx = m.idx
    THEN CHOOSE p \in 1..Len(Bullets) : Bullets[p].workIdx = m.workIdx /\ Bullets[p].idx = m.idx
    ELSE 0

DistinctBefores ==
    \A i, j \in 1..Len(rewrites) : i # j => rewrites[i].before # rewrites[j].before

\* C4: no two entries of the mapping name the same bullet, and no two
\* operations of fullPatch have the same path.
C4_NoSharedAddress ==
    built.called =>
        /\ \A i, j \in 1..Len(built.mapping) :
              i # j => <<built.mapping[i].workIdx, built.mapping[i].idx>>
                         # <<built.mapping[j].workIdx, built.mapping[j].idx>>
        /\ \A i, j \in 1..Len(built.patch) :
              i # j => built.patch[i].path # built.patch[j].path

\* two suggestions with the same before text were both located
C4_Witness ==
    /\ built.called
    /\ \E i, j \in 1..Len(built.mapping) :
          i # j /\ built.mapping[i].before = built.mapping[j].before

\* the bullets a before text is present in: equal to it, or containing it
PresentIn(before) == {p \in 1..Len(Bullets) : includes(Bullets[p].text, before)}

\* the bullets whose text is the before text
EqualTo(before) == {p \in 1..Len(Bullets) : Bullets[p].text = before}

\* C5 as stated: distinct before values, each present in exactly one bullet,
\* are all located.
C5_PresentAllLocated ==
    (/\ built.called
     /\ DistinctBefores
     /\ \A k \in 1..Len(rewrites) : Cardinality(PresentIn(rewrites[k].before)) = 1)
    => Len(built.mapping) = Len(rewrites)

\* C5 amended: distinct before values, each the text of exactly one bullet,
\* are all located.
C5_EqualAllLocated ==
    (/\ built.called
     /\ DistinctBefores
     /\ \A k \in 1..Len(rewrites) : Cardinality(EqualTo(rewrites[k].before)) = 1)
    => Len(built.mapping) = Len(rewrites)

\* two distinct suggestions, each the text of one bullet, the two texts equal
\* once trimmed: the second is located although the first is trim-equal to its bullet
C5_Witness ==
    /\ built.called
    /\ DistinctBefores
    /\ Len(rewrites) = 2
    /\ \A k \in 1..Len(rewrites) : Cardinality(EqualTo(rewrites[k].before)) = 1
    /\ trim(rewrites[1].before) = trim(rewrites[2].before)
    /\ Len(built.mapping) = 2

\* the bullets the matcher can match a before text with, in either pass
Matching(before) ==
    {p \in 1..Len(Bullets) :
        \/ trim(Bullets[p].text) = trim(before)
        \/ includes(Bullets[p].text, slice0(before, Min(FragmentLen, Len(before))))}

\* the bullets the exact pass can match a before text with
MatchingExactly(before) ==
    {p \in 1..Len(Bullets) : trim(Bullets[p].text) = trim(before)}

SetMin(S) == CHOOSE x \in S : \A y \in S : x <= y
SetMax(S) == CHOOSE x \in S : \A y \in S : y <= x

\* exactly two suggestions have the before text t, the bullets in M are two,
\* and no suggestion with another before text is assigned a bullet of M
TwoForTwo(t, M) ==
    /\ Cardinality({k \in 1..Len(rewrites) : rewrites[k].before = t}) = 2
    /\ Cardinality(M) = 2
    /\ \A i \in 1..Len(built.mapping) :
          built.mapping[i].before # t => PlaceOf(built.mapping[i]) \notin M

\* the earlier suggestion with before text t has the earlier bullet of M,
\* the later suggestion the other
EarlierGetsEarlier(t, M) ==
    LET es == SelectSeq(built.mapping, LAMBDA m : m.before = t)
    IN /\ Len(es) = 2
       /\ PlaceOf(es[1]) = SetMin(M)
       /\ PlaceOf(es[2]) = SetMax(M)

\* C6 as stated: two suggestions with identical before text that matches two
\* distinct bullets: the earlier suggestion gets the bullet scanned earlier.
C6_MatchingInOrder ==
    built.called =>
        \A k \in 1..Len(rewrites) :
            TwoForTwo(rewrites[k].before, Matching(rewrites[k].before))
            => EarlierGetsEarlier(rewrites[k].before, Matching(rewrites[k].before))

\* C6 amended: two suggestions with identical before text that, once trimmed,
\* equals the trimmed text of two distinct bullets: the earlier suggestion gets
\* the bullet scanned earlier, the later suggestion the other.
C6_ExactInOrder ==
    built.called =>
        \A k \in 1..Len(rewrites) :
            TwoForTwo(rewrites[k].before, MatchingExactly(rewrites[k].before))
            => EarlierGetsEarlier(rewrites[k].before, MatchingExactly(rewrites[k].before))

\* the amended case, with a bullet between the two that matches by containment only
C6_Witness ==
    /\ built.called
    /\ \E k \in 1..Len(rewrites) :
          LET t == rewrites[k].before
          IN /\ TwoForTwo(t, MatchingExactly(t))
             /\ EarlierGetsEarlier(t, MatchingExactly(t))
             /\ \E p \in Matching(t) \ MatchingExactly(t) :
                   SetMin(MatchingExactly(t)) < p /\ p < SetMax(MatchingExactly(t))

\* q is the beginning of the list r
IsPrefix(q, r) == Len(q) <= Len(r) /\ q = SubSeq(r, 1, Len(q))

\* C21: the mapping and fullPatch built from the first k suggestions begin the
\* mapping and fullPatch built from all of them, for every k; a bullet two
\* suggestions match goes to the earlier one.
C21_EarlierKeepsLocation ==
    built.called =>
        \A k \in 0..Len(rewrites) :
            LET b == buildPatchFromRewrites(SubSeq(rewrites, 1, k), jsonResume)
            IN /\ IsPrefix(b.mapping, built.mapping)
               /\ IsPrefix(b.patch, built.patch)

\* two suggestions with different before texts match the same single bullet:
\* the first has it and the second is dropped
C21_Witness ==
    /\ built.called
    /\ Len(rewrites) = 2
    /\ rewrites[1].before # rewrites[2].before
    /\ Cardinality(Matching(rewrites[1].before)) = 1
    /\ Matching(rewrites[1].before) = Matching(rewrites[2].before)
    /\ Len(built.mapping) = 1
    /\ built.mapping[1].before = rewrites[1].before

(***************************************************************************)
(* locateBullet called on its own, with every set of bullets already used  *)
(***************************************************************************)

TextUpperA == <<"A">>

\* a before text one character longer than the fragment, and a bullet that
\* contains its first FragmentLen characters but not the last one
TextLong == [k \in 1..FragmentLen |-> "b"] \o <<"c">>
TextLongBullet == <<"x">> \o [k \in 1..FragmentLen |-> "b"]

LocateTexts == {TextA, TextXA, TextSpA, TextLongBullet}

LocateBefores == {<<>>, TextA, TextXA, TextSpA, TextUpperA, TextLong}

\* resumes of at most MaxBullets bullets, in one entry or cut after the first bullet
LocateResumes ==
    { Resume(CutInto(bs, sz)) :
        <<bs, sz>> \in { p \in (UNION {[1..n -> LocateTexts] : n \in 0..MaxBullets})
                                \X (UNION {[1..e -> 0..MaxBullets] : e \in 1..2}) :
                           /\ SumSeq(p[2]) = Len(p[1])
                           /\ Len(p[2]) = 2 => p[2][1] = 1 } }

InitLocate ==
    /\ PageIdle
    /\ jsonResume \in LocateResumes
    /\ rewrites \in {<<[before |-> b, after |-> TextY]>> : b \in LocateBefores}
    /\ pendingPatch = <<>>
    /\ rendered = Rendering
    /\ built = NotCalled /\ applied = NotCalled /\ again = NotCalled

\* locateBullet(before, work, used), used being any set of keys of bullets
CallLocate ==
    /\ ~built.called
    /\ \E used \in SUBSET {UsedKey(Bullets[p].workIdx, Bullets[p].idx) : p \in 1..Len(Bullets)} :
          built' = [called |-> TRUE, used |-> used,
                    loc |-> locateBullet(rewrites[1].before, workOf(jsonResume), used)]
    /\ UNCHANGED <<resumeId, s3key, jsonResume, jobId, rewrites, busy, pendingPatch,
                   dismissedPaths, request, docResume, last, rendered, applied, again>>

NextLocate == CallLocate

SpecLocate == InitLocate /\ [][NextLocate]_vars

\* the places, in scan order, of the bullets outside the used set of the call
Free == {p \in 1..Len(Bullets) :
            UsedKey(Bullets[p].workIdx, Bullets[p].idx) \notin built.used}

\* the free bullets equal to the before text once both are trimmed
FreeEqual == {p \in Free : trim(Bullets[p].text) = trim(rewrites[1].before)}

\* before.slice(0, Math.min(20, before.length))
Fragment == slice0(rewrites[1].before, Min(FragmentLen, Len(rewrites[1].before)))

\* the free bullets that contain the fragment of the before text
FreeContaining == {p \in Free : includes(Bullets[p].text, Fragment)}

\* C22: when a bullet outside used equals the before text once both are
\* trimmed, locateBullet returns the first such bullet in document order, also
\* when an earlier free bullet contains the fragment; the bullet it returns is
\* never in used.
C22_ExactFirst ==
    built.called =>
        /\ FreeEqual # {} =>
              /\ built.loc.found
              /\ PlaceOf(built.loc) = SetMin(FreeEqual)
        /\ built.loc.found =>
              UsedKey(built.loc.workIdx, built.loc.idx) \notin built.used

\* a free bullet that contains the fragment comes before the first free bullet
\* equal to the before text, another equal bullet is in used, and the equal
\* free one is returned
C22_Witness ==
    /\ built.called
    /\ FreeEqual # {}
    /\ \E q \in FreeContaining : q < SetMin(FreeEqual)
    /\ \E u \in 1..Len(Bullets) :
          u \notin Free /\ trim(Bullets[u].text) = trim(rewrites[1].before)
    /\ PlaceOf(built.loc) = SetMin(FreeEqual)

\* C23: when no bullet outside used equals the before text once trimmed,
\* locateBullet returns the first bullet outside used that contains the first
\* 20 characters of the before text (all of it when shorter), and nothing
\* when there is none.
C23_ContainmentFallback ==
    (built.called /\ FreeEqual = {}) =>
        IF FreeContaining = {}
        THEN ~built.loc.found
        ELSE /\ built.loc.found
             /\ PlaceOf(built.loc) = SetMin(FreeContaining)

\* a before text longer than the fragment is located at the second of two
\* bullets that hold its first 20 characters, the first one being in used
C23_Witness ==
    /\ built.called
    /\ FreeEqual = {}
    /\ Len(rewrites[1].before) > FragmentLen
    /\ built.loc.found
    /\ \E u \in 1..Len(Bullets) :
          /\ u \notin Free
          /\ u < PlaceOf(built.loc)
          /\ includes(Bullets[u].text, Fragment)

\* String.prototype.toLowerCase over the letters of the model
toLowerCase(text) == [k \in 1..Len(text) |-> IF text[k] = "A" THEN "a" ELSE text[k]]

\* the two texts differ at most in leading or trailing whitespace, or at most
\* in the case of letters
SameButSpaceOrCase(text, before) ==
    \/ trim(text) = trim(before)
    \/ toLowerCase(text) = toLowerCase(before)

\* C24 as stated: a before text that differs from a free bullet only in
\* leading or trailing whitespace, or only in capitalization, is located at
\* such a bullet.
C24_SpaceOrCaseLocated ==
    built.called =>
        \A p \in Free :
            SameButSpaceOrCase(Bullets[p].text, rewrites[1].before) =>
                /\ built.loc.found
                /\ SameButSpaceOrCase(Bullets[PlaceOf(built.loc)].text, rewrites[1].before)

\* C24 amended: a before text that differs from a free bullet only in leading
\* or trailing whitespace is located at the first free bullet equal to it once
\* trimmed; a before text that differs from the free bullets in the case of a
\* letter is located only where its fragment is contained as it is written.
C24_SpaceLocatedCaseNot ==
    built.called =>
        /\ \A p \in Free :
              trim(Bullets[p].text) = trim(rewrites[1].before) =>
                  /\ built.loc.found
                  /\ trim(Bullets[PlaceOf(built.loc)].text) = trim(rewrites[1].before)
        /\ (/\ FreeEqual = {}
            /\ \E p \in Free :
                  toLowerCase(Bullets[p].text) = toLowerCase(rewrites[1].before))
           => (built.loc.found <=> FreeContaining # {})

\* the before text has a leading space its only bullet lacks, and is located there
C24_Witness ==
    /\ built.called
    /\ rewrites[1].before = TextSpA
    /\ \A p \in 1..Len(Bullets) : Bullets[p].text = TextA
    /\ built.loc.found
    /\ built.used = {}

\* fullPatch holds, entry for entry, the operation of the mapping
PatchOfMapping ==
    /\ Len(built.patch) = Len(built.mapping)
    /\ \A i \in 1..Len(built.mapping) :
          built.patch[i] = Op(bulletPath(built.mapping[i].workIdx, built.mapping[i].idx),
                              built.mapping[i].after)

\* no entry of the mapping is for the before text
Unlocated(before) == \A i \in 1..Len(built.mapping) : built.mapping[i].before # before

\* C17 as stated, over documents whose highlights are arrays of strings: a
\* suggestion whose before text is neither equal to nor contained in any
\* bullet gives no mapping entry and no operation.
C17_AbsentUnlocated ==
    (built.called /\ jsonResume \in Resumes) =>
        /\ PatchOfMapping
        /\ \A k \in 1..Len(rewrites) :
              (EqualTo(rewrites[k].before) = {} /\ PresentIn(rewrites[k].before) = {})
                  => Unlocated(rewrites[k].before)

\* C17: a suggestion whose before text, trimmed, equals no trimmed bullet, and
\* whose first FragmentLen characters are contained in no bullet, gives no
\* mapping entry and no operation; alone, it leaves mapping and fullPatch empty.
C17_UnmatchedUnlocated ==
    built.called =>
        /\ PatchOfMapping
        /\ \A k \in 1..Len(rewrites) :
              Matching(rewrites[k].before) = {} =>
                  /\ Unlocated(rewrites[k].before)
                  /\ Len(rewrites) = 1 => (built.mapping = <<>> /\ built.patch = <<>>)

\* a document with bullets, one suggestion that matches none of them next to
\* one that is located
C17_Witness ==
    /\ built.called
    /\ Len(Bullets) >= 1
    /\ Len(rewrites) = 2
    /\ Matching(rewrites[1].before) = {}
    /\ Len(built.mapping) = 1
    /\ Len(built.patch) = 1

-----------------------------------------------------------------------------
(* Addresses: the ordered segments a path string stands for                *)

Idx(n) == [num |-> TRUE, n |-> n, s |-> <<>>]
Field(name) == [num |-> FALSE, n |-> 0, s |-> name]

NameKey == <<"n", "a", "m", "e">>

BulletAddress(w, i) == <<Field(WorkKey), Idx(w), Field(HighlightsKey), Idx(i)>>

\* "/" + segment, for every segment
RECURSIVE pathOf(_)
pathOf(A) ==
    IF A = <<>> THEN <<>>
    ELSE <<"/">> \o PropName(Head(A)) \o pathOf(Tail(A))

\* resolve(document, address): an index selects an element of an array, a name a
\* field of an object; anything else does not resolve (JUndefined)
RECURSIVE resolve(_, _)
resolve(doc, A) ==
    IF A = <<>> THEN doc
    ELSE LET seg == Head(A)
         IN IF \/ (doc.t = "array" /\ seg.num /\ seg.n < Len(doc.v))
               \/ (doc.t = "object" /\ ~seg.num /\ seg.s \in DOMAIN doc.v)
            THEN resolve(Get(doc, seg), Tail(A))
            ELSE JUndefined

Resolves(doc, A) == A # <<>> /\ resolve(doc, A) # JUndefined

\* withReplacement(document, address, value): the document with the addressed
\* value replaced, or the document itself when the address does not resolve
withReplacement(doc, A, value) ==
    IF Resolves(doc, A)
    THEN SetAt(doc, SubSeq(A, 1, Len(A) - 1), A[Len(A)], JStr(value))
    ELSE doc

\* the addresses the patches of the model are made of
ApplyAddresses ==
    { BulletAddress(0, 0), BulletAddress(0, 1), BulletAddress(1, 0),
      <<Field(WorkKey), Idx(0), Field(HighlightsKey)>>,
      BulletAddress(0, 5), BulletAddress(9, 0),
      BulletAddress(0, 0) \o <<Idx(0)>>,
      <<Field(NameKey), Idx(0)>> }

AddressOfPath(path) == CHOOSE A \in ApplyAddresses : pathOf(A) = path

ApplyOperations ==
    { Op(pathOf(BulletAddress(0, 0)), TextY),
      Op(pathOf(BulletAddress(0, 0)), TextZ),
      Op(pathOf(BulletAddress(0, 1)), TextY),
      Op(pathOf(BulletAddress(1, 0)), TextY),
      Op(pathOf(<<Field(WorkKey), Idx(0), Field(HighlightsKey)>>), TextY),
      Op(pathOf(<<Field(WorkKey), Idx(0), Field(HighlightsKey)>>), <<>>),
      Op(pathOf(BulletAddress(0, 5)), TextY),
      Op(pathOf(BulletAddress(9, 0)), TextY),
      Op(pathOf(BulletAddress(0, 0) \o <<Idx(0)>>), TextY),
      Op(pathOf(<<Field(NameKey), Idx(0)>>), TextY),
      [op |-> "add", path |-> pathOf(BulletAddress(0, 0)), value |-> TextZ] }

Patches == UNION {[1..n -> ApplyOperations] : n \in 0..MaxOps}

ApplyResumes ==
    { Resume(<<Entry(<<TextA, TextXA>>), Entry(<<TextA>>)>>),
      Resume(<<Entry(<<TextA>>)>>) }
    \cup OddResumes

-----------------------------------------------------------------------------
(* The applier on its own: apply(jsonResume, pendingPatch), then once more *)
(* on what it returned                                                     *)

InitApply ==
    /\ PageIdle
    /\ jsonResume \in ApplyResumes
    /\ rewrites = <<>>
    /\ pendingPatch \in Patches
    /\ rendered = Rendering
    /\ built = NotCalled /\ applied = NotCalled /\ again = NotCalled

\* preview = applyPatchLocal(resumeJson, pendingPatch); before: the argument
\* as it was when the call was made
CallApply ==
    /\ ~applied.called
    /\ LET r == applyPatchLocal(jsonResume, pendingPatch)
       IN /\ applied' = [called |-> TRUE, before |-> jsonResume, threw |-> r.threw,
                         alias |-> r.alias, value |-> r.value]
          /\ jsonResume' = r.arg
    /\ UNCHANGED <<resumeId, s3key, jobId, rewrites, busy, pendingPatch,
                   dismissedPaths, request, docResume, last, rendered, built, again>>

\* applyPatchLocal(preview, pendingPatch)
ApplyAgain ==
    /\ applied.called /\ ~applied.threw
    /\ ~again.called
    /\ LET r == applyPatchLocal(applied.value, pendingPatch)
       IN /\ again' = [called |-> TRUE, threw |-> r.threw, alias |-> r.alias,
                       value |-> r.value]
          /\ applied' = [applied EXCEPT !.value = r.arg]
    /\ UNCHANGED <<resumeId, s3key, jsonResume, jobId, rewrites, busy, pendingPatch,
                   dismissedPaths, request, docResume, last, rendered, built>>

NextApply == CallApply \/ ApplyAgain

SpecApply == InitApply /\ [][NextApply]_vars

\* C7: applyPatchLocal leaves the document it was given as it was, and what it
\* returns is another value than the one it was given.
C7_InputUnchanged ==
    applied.called => (jsonResume = applied.before /\ ~applied.alias)

\* a call that replaced something: the result differs from the input
C7_Witness ==
    applied.called /\ ~applied.threw /\ applied.value # applied.before

\* fold of withReplacement over the replace operations of a patch
RECURSIVE lenientApply(_, _)
lenientApply(doc, patch) ==
    IF patch = <<>> THEN doc
    ELSE lenientApply(
             IF Head(patch).op = "replace"
             THEN withReplacement(doc, AddressOfPath(Head(patch).path), Head(patch).value)
             ELSE doc,
             Tail(patch))

\* C8: no call raises an error, and the result is the document with every
\* operation that resolves applied and every other operation skipped.
C8_SkipsSilently ==
    applied.called =>
        /\ ~applied.threw
        /\ applied.value = lenientApply(applied.before, pendingPatch)

\* C9: applying the patch to the result of applying it gives that result again.
C9_Idempotent ==
    again.called => (~again.threw /\ again.value = applied.value)

\* C10: a single replace at an address present in the document: the result
\* holds the value at that address.
C10_ReplacedValueRead ==
    (/\ applied.called
     /\ Len(pendingPatch) = 1
     /\ pendingPatch[1].op = "replace"
     /\ Resolves(applied.before, AddressOfPath(pendingPatch[1].path)))
    => /\ ~applied.threw
       /\ resolve(applied.value, AddressOfPath(pendingPatch[1].path))
            = JStr(pendingPatch[1].value)

\* a bullet of the second entry was replaced and reads back as the new value
C10_Witness ==
    /\ applied.called
    /\ pendingPatch = <<Op(pathOf(BulletAddress(1, 0)), TextY)>>
    /\ Resolves(applied.before, BulletAddress(1, 0))
    /\ resolve(applied.value, BulletAddress(1, 0)) = JStr(TextY)
    /\ resolve(applied.before, BulletAddress(1, 0)) # JStr(TextY)

\* the addresses of the entries, the highlights fields and the bullets a
\* document of the model can have
DocumentAddresses ==
    {<<Field(WorkKey)>>}
    \cup {<<Field(WorkKey), Idx(w)>> : w \in 0..MaxWork}
    \cup {<<Field(WorkKey), Idx(w), Field(HighlightsKey)>> : w \in 0..MaxWork}
    \cup {BulletAddress(w, i) : w \in 0..MaxWork, i \in 0..MaxBullets}

\* the addresses the replace operations of a patch name and that resolve in doc
NamedIn(doc, patch) ==
    {A \in ApplyAddresses :
        /\ Resolves(doc, A)
        /\ \E k \in 1..Len(patch) :
              patch[k].op = "replace" /\ patch[k].path = pathOf(A)}

\* the value is a text leaf or an empty leaf, not a container
IsLeaf(v) == v.t \in {"string", "null"}

\* the two values have the same shape: both arrays of the same length, both
\* objects with the same fields, or both leaves
SameShape(u, v) ==
    IF u.t = "array" THEN v.t = "array" /\ Len(u.v) = Len(v.v)
    ELSE IF u.t = "object" THEN v.t = "object" /\ DOMAIN u.v = DOMAIN v.v
    ELSE u.t = v.t \/ (IsLeaf(u) /\ IsLeaf(v))

\* C25: the result of applyPatchLocal differs from the document only at the
\* addresses its operations name and that resolve in the document: every
\* other leaf is equal, and no entry, bullet or field is added or removed.
C25_OnlyNamedAddressesChange ==
    applied.called =>
        /\ ~applied.threw
        /\ \A A \in DocumentAddresses :
              Resolves(applied.before, A) =>
                 /\ SameShape(resolve(applied.before, A), resolve(applied.value, A))
                 /\ (IsLeaf(resolve(applied.before, A))
                     /\ A \notin NamedIn(applied.before, pendingPatch))
                    => resolve(applied.value, A) = resolve(applied.before, A)

-----------------------------------------------------------------------------
(* InlineDiffPanel: the patch store                                        *)

\* useMemo(() => buildPatchFromRewrites(rewrites, resumeJson))
fullPatch == buildPatchFromRewrites(rewrites, jsonResume).patch
mapping == buildPatchFromRewrites(rewrites, jsonResume).mapping

\* new Set(pendingPatch.map(p => p.path)), new Set(dismissedPaths), memoized
\* at the render
acceptedLookup ==
    {rendered.pendingPatch[k].path : k \in 1..Len(rendered.pendingPatch)}
dismissedLookup ==
    {rendered.dismissedPaths[k] : k \in 1..Len(rendered.dismissedPaths)}

\* an acceptOpFor that appends without removing the earlier operation
acceptOpFor_NoFilter(path, value) ==
    /\ pendingPatch' = Append(rendered.pendingPatch, Op(path, value))
    /\ dismissedPaths' =
          IF path \in dismissedLookup
          THEN SelectSeq(dismissedPaths, LAMBDA p : p # path)
          ELSE dismissedPaths

\* an acceptOpFor that leaves the path dismissed
acceptOpFor_KeepDismissed(path, value) ==
    /\ pendingPatch' =
          Append(SelectSeq(rendered.pendingPatch, LAMBDA p : p.path # path), Op(path, value))
    /\ dismissedPaths' = dismissedPaths

\* onUpdatePatch([...filtered, op]) on the pendingPatch of the render;
\* setDismissedPaths(prev => ...) on the dismissedPaths of the moment
acceptOpFor(path, value) ==
    /\ pendingPatch' =
          Append(SelectSeq(rendered.pendingPatch, LAMBDA p : p.path # path), Op(path, value))
    /\ dismissedPaths' =
          IF path \in dismissedLookup
          THEN SelectSeq(dismissedPaths, LAMBDA p : p # path)
          ELSE dismissedPaths

\* a rejectOpFor that leaves the pending operation in place
rejectOpFor_KeepPending(path) ==
    /\ pendingPatch' = rendered.pendingPatch
    /\ dismissedPaths' =
          IF path \notin dismissedLookup
          THEN Append(dismissedPaths, path)
          ELSE dismissedPaths

\* a rejectOpFor without the membership test
rejectOpFor_AlwaysAppend(path) ==
    /\ pendingPatch' = SelectSeq(rendered.pendingPatch, LAMBDA p : p.path # path)
    /\ dismissedPaths' = Append(dismissedPaths, path)

rejectOpFor(path) ==
    /\ pendingPatch' = SelectSeq(rendered.pendingPatch, LAMBDA p : p.path # path)
    /\ dismissedPaths' =
          IF path \notin dismissedLookup
          THEN Append(dismissedPaths, path)
          ELSE dismissedPaths

\* an acceptAll that only installs fullPatch
acceptAll_KeepDismissed ==
    /\ pendingPatch' = fullPatch
    /\ dismissedPaths' = dismissedPaths

acceptAll ==
    /\ pendingPatch' = fullPatch
    /\ dismissedPaths' = <<>>

\* a resetAll that only empties pending
resetAll_PendingOnly ==
    /\ pendingPatch' = <<>>
    /\ dismissedPaths' = dismissedPaths

resetAll ==
    /\ pendingPatch' = <<>>
    /\ dismissedPaths' = <<>>

-----------------------------------------------------------------------------
(* The store on its own: any sequence of accept, reject, acceptAll, reset  *)
(* from the empty store, at any address                                    *)

StorePaths == {bulletPath(0, 0), bulletPath(0, 1), bulletPath(1, 0)}
StoreValues == {TextY, TextZ}

StoreResumes ==
    { Resume(<<Entry(<<TextA, TextXA>>), Entry(<<TextA>>)>>),
      Resume(<<Entry(<<TextXA, TextA>>)>>) }

\* the suggestion lists whose before texts are bullet texts as they stand
StoreRewriteLists ==
    {rs \in RewriteLists : \A k \in 1..Len(rs) : rs[k].before # TextSpA}

InitStore ==
    /\ PageIdle
    /\ jsonResume \in StoreResumes
    /\ rewrites \in StoreRewriteLists
    /\ pendingPatch = <<>>
    /\ rendered = Rendering
    /\ built = NotCalled /\ applied = NotCalled /\ again = NotCalled

StoreFrame ==
    /\ UNCHANGED <<resumeId, s3key, jsonResume, jobId, rewrites, busy, request,
                   docResume, built, applied, again>>
    /\ render

\* what is kept of a store operation: its name, its arguments, and the store
\* and fullPatch it was called on
Called(op, path, value) ==
    [op |-> op, path |-> path, value |-> value, pending |-> pendingPatch,
     dismissed |-> dismissedPaths, fullPatch |-> fullPatch]

StoreAccept == \E path \in StorePaths, value \in StoreValues :
    /\ acceptOpFor(path, value)
    /\ last' = Called("accept", path, value)
    /\ StoreFrame

StoreReject == \E path \in StorePaths :
    /\ rejectOpFor(path)
    /\ last' = Called("reject", path, <<>>)
    /\ StoreFrame

StoreAcceptAll ==
    /\ acceptAll
    /\ last' = Called("acceptAll", <<>>, <<>>)
    /\ StoreFrame

StoreReset ==
    /\ resetAll
    /\ last' = Called("reset", <<>>, <<>>)
    /\ StoreFrame

NextStore == StoreAccept \/ StoreReject \/ StoreAcceptAll \/ StoreReset

SpecStore == InitStore /\ [][NextStore]_vars

\* C1: no address is pending and dismissed at the same time.
C1_PendingDismissedDisjoint == acceptedLookup \cap dismissedLookup = {}

\* both sets hold an address
C1_Witness == pendingPatch # <<>> /\ dismissedPaths # <<>>

AtMostOnePerAddress(patch) ==
    \A i, j \in 1..Len(patch) : i # j => patch[i].path # patch[j].path

\* C2: pending holds at most one operation per address, and after
\* accept(address, v) the operation held for address carries v.
C2_OnePerAddressLastWins ==
    /\ AtMostOnePerAddress(pendingPatch)
    /\ [][ /\ AtMostOnePerAddress(pendingPatch')
           /\ \A path \in StorePaths, value \in StoreValues :
                 acceptOpFor(path, value) =>
                     \E k \in 1..Len(pendingPatch') :
                         pendingPatch'[k] = Op(path, value) ]_vars

\* an address holds another value than the one fullPatch gives it, next to
\* another pending operation: it was accepted with that value after acceptAll
\* or after an earlier accept
C2_Witness ==
    /\ Len(pendingPatch) >= 2
    /\ \E k \in 1..Len(pendingPatch), j \in 1..Len(fullPatch) :
          /\ pendingPatch[k].path = fullPatch[j].path
          /\ pendingPatch[k].value # fullPatch[j].value

\* the operations a patch holds for a path, and those it holds for the others
opsAt(patch, path) == SelectSeq(patch, LAMBDA p : p.path = path)
opsElsewhere(patch, path) == SelectSeq(patch, LAMBDA p : p.path # path)

\* the paths of a list, and how often a path occurs in it
pathSet(paths) == {paths[k] : k \in 1..Len(paths)}
occurrences(paths, path) == Len(SelectSeq(paths, LAMBDA p : p = path))

\* C11: after accept(address, value) pending holds exactly one operation for
\* address, replace(address, value); address is not dismissed; the operations
\* and the dismissal of every other address are as before.
C11_AcceptEffect ==
    last.op = "accept" =>
        /\ opsAt(pendingPatch, last.path) = <<Op(last.path, last.value)>>
        /\ last.path \notin dismissedLookup
        /\ opsElsewhere(pendingPatch, last.path) = opsElsewhere(last.pending, last.path)
        /\ dismissedLookup \ {last.path} = pathSet(last.dismissed) \ {last.path}

\* accept of an address that was dismissed, with another address pending and
\* another dismissed
C11_Witness ==
    /\ last.op = "accept"
    /\ last.path \in pathSet(last.dismissed)
    /\ opsElsewhere(last.pending, last.path) # <<>>
    /\ pathSet(last.dismissed) \ {last.path} # {}

\* C12: after reject(address) pending holds no operation for address, address
\* is in dismissed exactly once, and the operations and the dismissal of every
\* other address are as before.
C12_RejectEffect ==
    last.op = "reject" =>
        /\ opsAt(pendingPatch, last.path) = <<>>
        /\ occurrences(dismissedPaths, last.path) = 1
        /\ opsElsewhere(pendingPatch, last.path) = opsElsewhere(last.pending, last.path)
        /\ dismissedLookup \ {last.path} = pathSet(last.dismissed) \ {last.path}

\* reject of an address that was pending, with another address pending
C12_Witness ==
    /\ last.op = "reject"
    /\ opsAt(last.pending, last.path) # <<>>
    /\ opsElsewhere(last.pending, last.path) # <<>>

\* C13: after acceptAll pending is fullPatch, in its order, and dismissed is
\* empty: every located suggestion that was rejected is accepted.
C13_AcceptAllEffect ==
    last.op = "acceptAll" =>
        /\ pendingPatch = last.fullPatch
        /\ dismissedPaths = <<>>
        /\ \A k \in 1..Len(last.fullPatch) :
              last.fullPatch[k].path \in pathSet(last.dismissed) =>
                  last.fullPatch[k] \in {pendingPatch[j] : j \in 1..Len(pendingPatch)}

\* acceptAll over a store that held a rejected located suggestion and an
\* operation with a value that is not fullPatch's
C13_Witness ==
    /\ last.op = "acceptAll"
    /\ Len(last.fullPatch) >= 2
    /\ \E k \in 1..Len(last.fullPatch) :
          last.fullPatch[k].path \in pathSet(last.dismissed)
    /\ \E j \in 1..Len(last.pending), k \in 1..Len(last.fullPatch) :
          /\ last.pending[j].path = last.fullPatch[k].path
          /\ last.pending[j].value # last.fullPatch[k].value

\* C14: after reset pending and dismissed are both empty.
C14_ResetEffect ==
    last.op = "reset" => (pendingPatch = <<>> /\ dismissedPaths = <<>>)

\* reset right after acceptAll, and reset of a store with a dismissed address
C14_Witness ==
    /\ last.op = "reset"
    /\ last.pending # <<>>
    /\ \/ last.pending = last.fullPatch
       \/ last.dismissed # <<>>

\* the operations of a list, as a set
opSet(patch) == {patch[k] : k \in 1..Len(patch)}

\* C26: every store operation acts on the store the operation before it left:
\* the values the callbacks hold are those of the current store, an accept
\* keeps the operations accepted before it at other addresses and leaves its
\* address pending and not dismissed, a reject keeps the addresses dismissed
\* before it.
C26_EachOnThePrevious ==
    /\ rendered = Rendering
    /\ last.op = "accept" =>
          /\ opSet(opsElsewhere(last.pending, last.path)) \subseteq opSet(pendingPatch)
          /\ Op(last.path, last.value) \in opSet(pendingPatch)
          /\ last.path \notin pathSet(dismissedPaths)
          /\ pathSet(last.dismissed) \ {last.path} \subseteq pathSet(dismissedPaths)
    /\ last.op = "reject" =>
          /\ opSet(opsElsewhere(last.pending, last.path)) \subseteq opSet(pendingPatch)
          /\ pathSet(last.dismissed) \cup {last.path} \subseteq pathSet(dismissedPaths)

\* an address was accepted, another one rejected and then accepted: both are
\* pending and none is dismissed
C26_Witness ==
    /\ last.op = "accept"
    /\ last.path \in pathSet(last.dismissed)
    /\ last.pending # <<>>
    /\ Len(pendingPatch) = 2
    /\ dismissedPaths = <<>>

-----------------------------------------------------------------------------
(* The page: its handlers, the requests they await, and the panel it      *)
(* mounts                                                                  *)

ResumeIds == {"r1", "r2"}
JobIds == {"j1"}

\* the s3_key the upload endpoint hands out with a resume_id
S3KeyOf(id) == IF id = "r1" THEN "k1" ELSE "k2"

\* documents and suggestion lists the server answers with; json_resume is
\* undefined in an error payload
PageResumes ==
    { Resume(<<Entry(<<TextA, TextXA>>)>>),
      Resume(<<Entry(<<TextA>>), Entry(<<TextA>>)>>),
      JUndefined }

PageRewriteLists ==
    {rs \in RewriteLists : \A k \in 1..Len(rs) : rs[k].before # TextSpA}

NoRequest == [kind |-> "none"]

\* {jsonResume && rewrites && rewrites.length > 0 && <InlineDiffPanel .../>}
PanelMounted(doc, rs) == Truthy(doc) /\ Len(rs) > 0

\* the panel's own state lasts as long as the panel stays mounted
panelState(doc, rs) == IF PanelMounted(doc, rs) THEN dismissedPaths ELSE <<>>

\* a filter that looks at the dismissed paths only
visible_NotDismissed ==
    SelectSeq(mapping, LAMBDA m : bulletPath(m.workIdx, m.idx) \notin dismissedLookup)

\* a panel that shows a row for every entry of the mapping
visible_All == mapping

\* mapping.filter(m => !acceptedLookup.has(path) && !dismissedLookup.has(path))
visible ==
    SelectSeq(mapping, LAMBDA m :
        /\ bulletPath(m.workIdx, m.idx) \notin acceptedLookup
        /\ bulletPath(m.workIdx, m.idx) \notin dismissedLookup)

InitPage ==
    /\ PageIdle
    /\ jsonResume = JNull
    /\ rewrites = <<>>
    /\ pendingPatch = <<>>
    /\ rendered = Rendering
    /\ built = NotCalled /\ applied = NotCalled /\ again = NotCalled

Untouched ==
    /\ UNCHANGED <<built, applied, again>>
    /\ render

startUpload ==
    /\ ~busy
    /\ busy' = TRUE
    /\ request' = [kind |-> "upload"]
    /\ UNCHANGED <<resumeId, s3key, jsonResume, jobId, rewrites, pendingPatch,
                   dismissedPaths, docResume>>
    /\ last' = NoOperation
    /\ Untouched

\* the upload endpoint answers: setResumeId, setS3key, then the PUT
startUploadInit ==
    /\ request.kind = "upload"
    /\ \E id \in ResumeIds \ {resumeId} :
          /\ resumeId' = id
          /\ s3key' = S3KeyOf(id)
    /\ request' = [kind |-> "put"]
    /\ UNCHANGED <<jsonResume, jobId, rewrites, busy, pendingPatch,
                   dismissedPaths, docResume>>
    /\ last' = NoOperation
    /\ Untouched

startUploadPut ==
    /\ request.kind = "put"
    /\ busy' = FALSE
    /\ request' = NoRequest
    /\ UNCHANGED <<resumeId, s3key, jsonResume, jobId, rewrites, pendingPatch,
                   dismissedPaths, docResume>>
    /\ last' = NoOperation
    /\ Untouched

extract ==
    /\ ~busy
    /\ s3key # "" /\ resumeId # ""
    /\ busy' = TRUE
    /\ request' = [kind |-> "extract", resumeId |-> resumeId, s3key |-> s3key]
    /\ UNCHANGED <<resumeId, s3key, jsonResume, jobId, rewrites, pendingPatch,
                   dismissedPaths, docResume>>
    /\ last' = NoOperation
    /\ Untouched

extractResponse ==
    /\ request.kind = "extract"
    /\ \E doc \in PageResumes :
          /\ jsonResume' = doc
          /\ dismissedPaths' = panelState(doc, rewrites)
    /\ pendingPatch' = <<>>
    /\ docResume' = request.resumeId
    /\ busy' = FALSE
    /\ request' = NoRequest
    /\ UNCHANGED <<resumeId, s3key, jobId, rewrites>>
    /\ last' = NoOperation
    /\ Untouched

ingestJob ==
    /\ ~busy
    /\ busy' = TRUE
    /\ request' = [kind |-> "ingest"]
    /\ UNCHANGED <<resumeId, s3key, jsonResume, jobId, rewrites, pendingPatch,
                   dismissedPaths, docResume>>
    /\ last' = NoOperation
    /\ Untouched

ingestJobResponse ==
    /\ request.kind = "ingest"
    /\ jobId' \in JobIds
    /\ busy' = FALSE
    /\ request' = NoRequest
    /\ UNCHANGED <<resumeId, s3key, jsonResume, rewrites, pendingPatch,
                   dismissedPaths, docResume>>
    /\ last' = NoOperation
    /\ Untouched

compare ==
    /\ ~busy
    /\ resumeId # "" /\ jobId # ""
    /\ busy' = TRUE
    /\ request' = [kind |-> "compare", resumeId |-> resumeId, jobId |-> jobId]
    /\ UNCHANGED <<resumeId, s3key, jsonResume, jobId, rewrites, pendingPatch,
                   dismissedPaths, docResume>>
    /\ last' = NoOperation
    /\ Untouched

\* also the answer to the compare() that saveChanges awaits
compareResponse ==
    /\ request.kind = "compare"
    /\ \E rs \in PageRewriteLists :
          /\ rewrites' = rs
          /\ dismissedPaths' = panelState(jsonResume, rs)
    /\ pendingPatch' = <<>>
    /\ busy' = FALSE
    /\ request' = NoRequest
    /\ UNCHANGED <<resumeId, s3key, jsonResume, jobId, docResume>>
    /\ last' = NoOperation
    /\ Untouched

\* a saveChanges without its first line
saveChanges_Unguarded ==
    /\ ~busy
    /\ busy' = TRUE
    /\ request' = [kind |-> "save", resumeId |-> resumeId,
                   patch |-> pendingPatch, jobId |-> jobId]
    /\ UNCHANGED <<resumeId, s3key, jsonResume, jobId, rewrites, pendingPatch,
                   dismissedPaths, docResume>>
    /\ last' = NoOperation
    /\ Untouched

saveChanges ==
    /\ ~busy
    /\ resumeId # "" /\ Len(pendingPatch) > 0
    /\ busy' = TRUE
    /\ request' = [kind |-> "save", resumeId |-> resumeId,
                   patch |-> pendingPatch, jobId |-> jobId]
    /\ UNCHANGED <<resumeId, s3key, jsonResume, jobId, rewrites, pendingPatch,
                   dismissedPaths, docResume>>
    /\ last' = NoOperation
    /\ Untouched

\* the answer carries compare results
saveChangesCompared ==
    /\ request.kind = "save"
    /\ \E doc \in PageResumes, rs \in PageRewriteLists :
          /\ jsonResume' = doc
          /\ rewrites' = rs
          /\ dismissedPaths' = panelState(doc, rs)
          /\ last' = [op |-> "save", doc |-> doc, sent |-> request]
    /\ pendingPatch' = <<>>
    /\ docResume' = request.resumeId
    /\ busy' = FALSE
    /\ request' = NoRequest
    /\ UNCHANGED <<resumeId, s3key, jobId>>
    /\ Untouched

\* the answer carries none: compare() is awaited when there is a job
saveChangesPlain ==
    /\ request.kind = "save"
    /\ \E doc \in PageResumes :
          /\ jsonResume' = doc
          /\ dismissedPaths' = panelState(doc, rewrites)
          /\ last' = [op |-> "save", doc |-> doc, sent |-> request]
    /\ pendingPatch' = <<>>
    /\ docResume' = request.resumeId
    /\ IF request.jobId # ""
       THEN /\ busy' = TRUE
            /\ request' = [kind |-> "compare", resumeId |-> request.resumeId,
                           jobId |-> request.jobId]
       ELSE /\ busy' = FALSE
            /\ request' = NoRequest
    /\ UNCHANGED <<resumeId, s3key, jobId, rewrites>>
    /\ Untouched

\* a fetch rejects or its body does not parse: only the finally block runs
rejected ==
    /\ request.kind # "none"
    /\ busy' = FALSE
    /\ request' = NoRequest
    /\ UNCHANGED <<resumeId, s3key, jsonResume, jobId, rewrites, pendingPatch,
                   dismissedPaths, docResume>>
    /\ last' = NoOperation
    /\ Untouched

PanelFrame ==
    /\ UNCHANGED <<resumeId, s3key, jsonResume, jobId, rewrites, busy, request,
                   docResume, built, applied, again>>
    /\ render

\* onAccept={() => acceptOpFor(path, m.after)} of a row shown
onAccept ==
    /\ PanelMounted(jsonResume, rewrites)
    /\ \E k \in 1..Len(visible) :
          /\ acceptOpFor(bulletPath(visible[k].workIdx, visible[k].idx), visible[k].after)
          /\ last' = Called("accept", bulletPath(visible[k].workIdx, visible[k].idx),
                            visible[k].after)
    /\ PanelFrame

onReject ==
    /\ PanelMounted(jsonResume, rewrites)
    /\ \E k \in 1..Len(visible) :
          /\ rejectOpFor(bulletPath(visible[k].workIdx, visible[k].idx))
          /\ last' = Called("reject", bulletPath(visible[k].workIdx, visible[k].idx), <<>>)
    /\ PanelFrame

onAcceptAll ==
    /\ PanelMounted(jsonResume, rewrites)
    /\ acceptAll
    /\ last' = Called("acceptAll", <<>>, <<>>)
    /\ PanelFrame

onResetAll ==
    /\ PanelMounted(jsonResume, rewrites)
    /\ resetAll
    /\ last' = Called("reset", <<>>, <<>>)
    /\ PanelFrame

Next ==
    \/ startUpload \/ startUploadInit \/ startUploadPut
    \/ extract \/ extractResponse
    \/ ingestJob \/ ingestJobResponse
    \/ compare \/ compareResponse
    \/ saveChanges \/ saveChangesCompared \/ saveChangesPlain
    \/ rejected
    \/ onAccept \/ onReject \/ onAcceptAll \/ onResetAll

Spec == InitPage /\ [][Next]_vars

\* C3: when extract completes, compare completes or a save returns a
\* document, pending and dismissed are both empty afterwards.
C3_StoreEmptyAfterReplace ==
    [][ (extractResponse \/ compareResponse \/ saveChangesCompared \/ saveChangesPlain)
            => (pendingPatch' = <<>> /\ dismissedPaths' = <<>>) ]_vars

\* how many of the three classes a mapping entry is in
classesOf(m) ==
    LET path == bulletPath(m.workIdx, m.idx)
        shown == \E k \in 1..Len(visible) : visible[k] = m
    IN (IF shown THEN 1 ELSE 0)
       + (IF path \in acceptedLookup THEN 1 ELSE 0)
       + (IF path \in dismissedLookup THEN 1 ELSE 0)

\* C15: the visible suggestions are the mapping entries whose address is
\* neither pending nor dismissed, and every mapping entry is visible, pending
\* or dismissed, and only one of the three.
C15_ThreeClasses ==
    /\ {visible[k] : k \in 1..Len(visible)} =
          {mapping[k] : k \in {j \in 1..Len(mapping) :
              /\ bulletPath(mapping[j].workIdx, mapping[j].idx) \notin acceptedLookup
              /\ bulletPath(mapping[j].workIdx, mapping[j].idx) \notin dismissedLookup}}
    /\ \A k \in 1..Len(mapping) : classesOf(mapping[k]) = 1

\* of two located suggestions one is rejected and the other is still shown
C15_Witness ==
    /\ PanelMounted(jsonResume, rewrites)
    /\ Len(mapping) = 2
    /\ Len(visible) = 1
    /\ dismissedPaths # <<>>

-----------------------------------------------------------------------------
(* The panel over a document and its suggestions: rows are accepted, the   *)
(* store is reset, and the preview is computed from what is pending        *)

PreviewResumes ==
    { Resume(<<Entry(<<TextA, TextXA>>)>>),
      Resume(<<Entry(<<TextXA>>), Entry(<<TextA, TextA>>)>>),
      Resume(<<Entry(<<>>), Entry(<<TextXA, TextA>>)>>),
      Resume(<<Entry(<<TextA>>), Entry(<<TextSpA>>)>>) }

InitPreview ==
    /\ PageIdle
    /\ jsonResume \in PreviewResumes
    /\ rewrites \in RewriteLists
    /\ pendingPatch = <<>>
    /\ rendered = Rendering
    /\ built = NotCalled /\ applied = NotCalled /\ again = NotCalled

\* useMemo(() => applyPatchLocal(resumeJson, pendingPatch), [resumeJson, pendingPatch])
preview ==
    /\ PanelMounted(jsonResume, rewrites)
    /\ IF applied.called THEN applied.patch # pendingPatch ELSE TRUE
    /\ LET r == applyPatchLocal(jsonResume, pendingPatch)
       IN /\ applied' = [called |-> TRUE, before |-> jsonResume, patch |-> pendingPatch,
                         threw |-> r.threw, alias |-> r.alias, value |-> r.value]
          /\ jsonResume' = r.arg
    /\ UNCHANGED <<resumeId, s3key, jobId, rewrites, busy, pendingPatch,
                   dismissedPaths, request, docResume, last, rendered, built, again>>

NextPreview == onAccept \/ onResetAll \/ preview

SpecPreview == InitPreview /\ [][NextPreview]_vars

\* C16: with the operation of one mapping entry pending and nothing else,
\* the preview holds the entry's after text at the entry's address, which
\* resolves in the document, and every other bullet is the document's.
C16_PreviewOfAccepted ==
    \A k \in 1..Len(mapping) :
        LET m == mapping[k]
            A == BulletAddress(m.workIdx, m.idx)
        IN (/\ applied.called
            /\ applied.patch = <<Op(bulletPath(m.workIdx, m.idx), m.after)>>)
           => /\ ~applied.threw
              /\ Resolves(applied.before, A)
              /\ resolve(applied.value, A) = JStr(m.after)
              /\ \A p \in 1..Len(Bullets) :
                    LET B == BulletAddress(Bullets[p].workIdx, Bullets[p].idx)
                    IN B # A => resolve(applied.value, B) = resolve(applied.before, B)

\* the preview of a document of several bullets with one accepted suggestion,
\* located in the second entry
C16_Witness ==
    /\ applied.called
    /\ Len(applied.patch) = 1
    /\ last.op = "accept" /\ last.pending = <<>>
    /\ applied.patch = <<Op(last.path, last.value)>>
    /\ Len(Bullets) >= 2
    /\ \E k \in 1..Len(mapping) :
          /\ mapping[k].workIdx = 1
          /\ last.path = bulletPath(mapping[k].workIdx, mapping[k].idx)
    /\ applied.value # applied.before

\* the lists that hold the operations of a patch in another order
Reorderings(patch) ==
    { [k \in 1..Len(patch) |-> patch[f[k]]] :
        f \in {g \in [1..Len(patch) -> 1..Len(patch)] :
                  \A a, b \in 1..Len(patch) : a # b => g[a] # g[b]} }

\* C29: the preview does not depend on the order in which the pending
\* operations were accepted: applyPatchLocal gives the same document for the
\* pending list in any order.
C29_PreviewOrderFree ==
    \A q \in Reorderings(pendingPatch) :
        /\ applyPatchLocal(jsonResume, q).threw = applyPatchLocal(jsonResume, pendingPatch).threw
        /\ applyPatchLocal(jsonResume, q).value = applyPatchLocal(jsonResume, pendingPatch).value

\* two addresses of the document are pending, an operation at one of them
\* was rejected and accepted again after the other was accepted, and the
\* preview replaces both bullets
C29_Witness ==
    /\ last.op = "accept"
    /\ Len(pendingPatch) = 2
    /\ last.path \in pathSet(last.dismissed)
    /\ \A k \in 1..Len(pendingPatch) : Resolves(jsonResume, AddressOfPath(pendingPatch[k].path))
    /\ ~applyPatchLocal(jsonResume, pendingPatch).threw
    /\ \A k \in 1..Len(pendingPatch) :
          resolve(applyPatchLocal(jsonResume, pendingPatch).value,
                  AddressOfPath(pendingPatch[k].path)) = JStr(pendingPatch[k].value)

\* C30: fullPatch and the mapping have the same length and the k-th operation
\* is the replace at the k-th entry's path with its after text; so accepting
\* every row one by one, from the empty store, leaves the operations of
\* fullPatch pending, as accept all does, and after either no row is visible.
C30_RowByRowIsAcceptAll ==
    /\ Len(fullPatch) = Len(mapping)
    /\ \A k \in 1..Len(mapping) :
          fullPatch[k] = Op(bulletPath(mapping[k].workIdx, mapping[k].idx), mapping[k].after)
    /\ (visible = <<>> /\ dismissedPaths = <<>>) => opSet(pendingPatch) = opSet(fullPatch)
    /\ last.op = "acceptAll" => (visible = <<>> /\ opSet(pendingPatch) = opSet(fullPatch))

\* the two rows were accepted one by one, the second one first: no row is
\* left and the pending list is fullPatch in another order
C30_Witness ==
    /\ last.op = "accept"
    /\ Len(last.pending) = 1
    /\ Len(mapping) = 2
    /\ visible = <<>>
    /\ dismissedPaths = <<>>
    /\ pendingPatch = <<fullPatch[2], fullPatch[1]>>

\* op is a replace whose path is /work/w/highlights/i for zero-based indices
\* w, i at which doc has a bullet
ReplacesBulletOf(doc, op) ==
    /\ op.op = "replace"
    /\ \E w \in 0..Len(Bullets), i \in 0..Len(Bullets) :
          /\ op.path = pathOf(BulletAddress(w, i))
          /\ resolve(doc, BulletAddress(w, i)).t = "string"

AllReplaceBullets(doc, patch) == \A k \in 1..Len(patch) : ReplacesBulletOf(doc, patch[k])

\* C18: every operation of fullPatch, of pending, and of a patch sent to be
\* saved is a replace at /work/w/highlights/i, w and i zero-based and naming a
\* bullet of the document.
C18_OperationsAddressBullets ==
    /\ AllReplaceBullets(jsonResume, fullPatch)
    /\ AllReplaceBullets(jsonResume, pendingPatch)
    /\ request.kind = "save" => AllReplaceBullets(jsonResume, request.patch)

\* a patch of two operations is on its way to be saved, one of them at the
\* last bullet of its entry
C18_Witness ==
    /\ request.kind = "save"
    /\ Len(request.patch) = 2
    /\ Len(fullPatch) = 2
    /\ \E k \in 1..Len(request.patch) :
          request.patch[k].path = pathOf(BulletAddress(0, 1))

\* C19: a patch sent to be saved is sent with the resume_id of the resume the
\* document its operations were built against was fetched for.
C19_PatchSentWithItsResume ==
    request.kind = "save" => request.resumeId = docResume

\* C20: right after the answer to a save that carries a document, jsonResume
\* is that document, pending is empty and the preview is that document; a save
\* is sent only with a resume_id and a patch that is not empty.
C20_SavedDocumentInstalled ==
    /\ (last.op = "save" /\ Truthy(last.doc)) =>
          /\ jsonResume = last.doc
          /\ pendingPatch = <<>>
          /\ ~applyPatchLocal(jsonResume, pendingPatch).threw
          /\ applyPatchLocal(jsonResume, pendingPatch).value = last.doc
    /\ last.op = "save" => (last.sent.patch # <<>> /\ last.sent.resumeId # "")
    /\ request.kind = "save" => (request.patch # <<>> /\ request.resumeId # "")

\* the answer to a save of two operations carries a document, and the panel
\* shows its preview
C20_Witness ==
    /\ last.op = "save"
    /\ Truthy(last.doc)
    /\ Len(last.sent.patch) = 2
    /\ PanelMounted(jsonResume, rewrites)

\* C27: no accepted edit is lost around a save: an operation pending when the
\* answer to a save arrives was either in the patch that save sent or is
\* still pending after the answer.
C27_SaveKeepsLaterEdits ==
    [][IF last'.op = "save"
       THEN opSet(pendingPatch) \subseteq opSet(last'.sent.patch) \cup opSet(pendingPatch')
       ELSE TRUE]_vars

\* C28: accept and reject are offered for visible entries only; until accept
\* all or reset is pressed, or the page replaces the document or the
\* suggestions, an address that is pending stays pending and an address that
\* is dismissed stays dismissed, so a suggestion rejected on its row cannot be
\* accepted on its row afterwards.
C28_DecidedStaysDecided ==
    [][\/ /\ pathSet(dismissedPaths) \subseteq pathSet(dismissedPaths')
          /\ {pendingPatch[k].path : k \in 1..Len(pendingPatch)}
                \subseteq {pendingPatch'[k].path : k \in 1..Len(pendingPatch')}
          /\ IF last'.op \in {"accept", "reject"}
             THEN /\ last'.path \notin pathSet(dismissedPaths)
                  /\ last'.path \notin {pendingPatch[k].path : k \in 1..Len(pendingPatch)}
             ELSE TRUE
       \/ last'.op \in {"acceptAll", "reset", "save"}
       \/ extractResponse
       \/ compareResponse]_vars

\* one suggestion was rejected and the other accepted: no row is left to act on
C28_Witness ==
    /\ last.op = "accept"
    /\ dismissedPaths # <<>>
    /\ pendingPatch # <<>>
    /\ Len(mapping) = 2
    /\ visible = <<>>

=============================================================================
